---------------------------- MODULE Spec2Model ----------------------------
(***************************************************************************)
(* A model of crates/rspack_core/src/compiler/queue.rs: the completion bus *)
(* (QueueHandler / QueueHandlerProcessor), the graph-integration tasks     *)
(* (AddTask, CleanTask) and FactorizeTask.                                 *)
(*                                                                         *)
(* A callback (QueueHandleCallback) is an opaque FnOnce closure; the model *)
(* records each invocation in the log `fired` (which subscription, with    *)
(* which result, from which processor method).                             *)
(***************************************************************************)
EXTENDS Integers, Sequences, FiniteSets, TLC

(***************************************************************************)
(* Bounds of the model.                                                    *)
(***************************************************************************)
\* DependencyId and ModuleIdentifier values are 1..MaxEntity
MaxEntity == 2
\* number of wait_for calls in a run
MaxSubs == 2
\* number of complete_task calls in a run
MaxCompletes == 2
\* number of add_task calls in a run
MaxTasks == 2
\* number of AddTask::run calls in a run
MaxAdds == 2
\* length of an Add task's `dependencies`
MaxTaskDeps == 1

\* callbacks: [HashMap<..>; 4] and finished: [HashMap<..>; 4]
NumBuckets == 4

\* Option<T>: None is the empty sequence, Some(x) the one-element sequence
None == <<>>
Some(x) == <<x>>

DependencyIds == 1..MaxEntity
ModuleIdentifiers == 1..MaxEntity

\* enum WaitTask { Factorize(DependencyId), Add(m), Build(m), ProcessDependencies(m) }
WaitStages == {"Factorize", "Add", "Build", "ProcessDependencies"}
WaitTask ==
  [stage : {"Factorize"}, id : DependencyIds]
    \cup [stage : {"Add", "Build", "ProcessDependencies"}, id : ModuleIdentifiers]

\* enum WaitTaskKey { Dependency(DependencyId), Identifier(ModuleIdentifier) }
WaitTaskKey ==
  [kind : {"Dependency"}, id : DependencyIds]
    \cup [kind : {"Identifier"}, id : ModuleIdentifiers]

\* type WaitTaskResult = ModuleIdentifier
WaitTaskResult == ModuleIdentifiers

\* enum QueueTask: the five task variants (Subscription is the sixth)
TaskKinds ==
  {"Factorize", "Add", "Build", "ProcessDependencies", "BuildTimeExecution"}

Buckets == 0..(NumBuckets - 1)

VARIABLES
  channel,        \* the unbounded mpsc channel: messages sent, not yet received
  callbacks,      \* QueueHandlerProcessor.callbacks: bucket -> key -> Vec of subscriptions
  finished,       \* QueueHandlerProcessor.finished: bucket -> key -> Option<result>
  queues,         \* the five worker queues try_process forwards to
  subTask,        \* subscription i (the i-th wait_for call) |-> its WaitTask
  nTasks,         \* number of add_task calls so far
  fired,          \* log of callback invocations, in order
  completed,      \* history: WaitTask |-> the result last passed to complete_task for it
  nCompletes,     \* history: number of complete_task calls so far
  sentDone,       \* history: subscription |-> complete_task had been called for its task
                  \*          when wait_for was called
  drained,        \* history: subscription |-> when: "no" (still in the channel), or
                  \*          received by try_process "before" / "after" complete_task was
                  \*          first called for its task; stored: the result last passed to
                  \*          complete_task for its task when it was received
  receiver_alive, \* the QueueHandlerProcessor, which owns the receiving end of the
                  \* channel, has not been dropped
  lastWaitFor,    \* history: the last wait_for call: whether the receiving end was
                  \* alive, whether a message went into the channel, how it ended
  lastAddTask     \* history: how the last add_task call ended

busVars ==
  <<channel, callbacks, finished, queues, subTask, nTasks, fired,
    completed, nCompletes, sentDone, drained, receiver_alive, lastWaitFor,
    lastAddTask>>

VARIABLES
  module_graph,   \* compilation.module_graph: nodes (the identifiers that have a
                  \* ModuleGraphModule), connections (origin, dependency, target) and
                  \* resolved (DependencyId -> Option<ModuleIdentifier>)
  entry_module_identifiers,  \* compilation.entry_module_identifiers
  lastAdd,        \* history: the AddTask::run call, if that was the last task run
                  \* on the compilation: its task, whether the module
                  \* had a node before, whether add_module_graph_module was called,
                  \* its result, whether the creation callback ran
  nAdds,          \* history: number of AddTask::run calls so far
  addedReports,   \* history: ModuleIdentifier |-> number of ModuleAdded reports, of
                  \* tasks with connect_origin (.connected) and without (.unconnected)
  lastClean,      \* history: the CleanTask::run call, if that was the last task run
                  \* on the compilation: its module; whether the
                  \* module had a node, and an incoming connection, before the call;
                  \* the targets of its outgoing connections before the call; whether
                  \* the call changed the compilation; whether the module has a node
                  \* after the call; its result
  removed         \* history: the identifiers a Clean has revoked

graphVars ==
  <<module_graph, entry_module_identifiers, lastAdd, nAdds, addedReports,
    lastClean, removed>>

VARIABLES
  options,          \* CompilerOptions, as far as the tasks read it: bail
  make_state,       \* the run: "idle", "running", "aborted" or "done"
  factorize_queue,  \* the Factorize tasks waiting for a worker
  task_results,     \* what the workers returned from FactorizeTask::run and the
                    \* run has not handled yet
  add_queue,        \* the Add tasks waiting to run
  build_queue,      \* the modules an Add handed on to be built
  diagnostics,      \* the diagnostics the run has collected
  unlinked,         \* history: the dependencies whose connection was taken out of
                    \* the graph after the run
  depLog            \* history: DependencyId |-> whether a Factorize task was made
                    \* for it and for which module, how the factory answered (with
                    \* which module and which soft diagnostics), what
                    \* FactorizeTask::run returned, whether the run handled that,
                    \* whether an Add task was made for it

makeVars ==
  <<options, make_state, factorize_queue, task_results, add_queue, build_queue,
    diagnostics, unlinked, depLog>>

VARIABLES
  build_cache,   \* cache.build_module_occasion: the modules it holds a build
                 \* result for
  lastBuild      \* history: the last BuildTask::run call: its module, what the
                 \* cache, the hooks and the module's build were set to answer,
                 \* and what the call did and returned

buildVars == <<build_cache, lastBuild>>

vars == <<busVars, graphVars, makeVars, buildVars>>

SubIds == 1..Len(subTask)

\* mutant of get_bucket_and_key: one key for each bucket, whatever the entity
GetBucketAndKey_OneKeyPerBucket(task) ==
  CASE task.stage = "Factorize" ->
         [bucket |-> 0, key |-> [kind |-> "Dependency", id |-> 1]]
    [] task.stage = "Add" ->
         [bucket |-> 1, key |-> [kind |-> "Identifier", id |-> 1]]
    [] task.stage = "Build" ->
         [bucket |-> 2, key |-> [kind |-> "Identifier", id |-> 1]]
    [] task.stage = "ProcessDependencies" ->
         [bucket |-> 3, key |-> [kind |-> "Identifier", id |-> 1]]

\* mutant of get_bucket_and_key: Build shares the Add bucket
GetBucketAndKey_BuildInAddBucket(task) ==
  CASE task.stage = "Factorize" ->
         [bucket |-> 0, key |-> [kind |-> "Dependency", id |-> task.id]]
    [] task.stage = "Add" ->
         [bucket |-> 1, key |-> [kind |-> "Identifier", id |-> task.id]]
    [] task.stage = "Build" ->
         [bucket |-> 1, key |-> [kind |-> "Identifier", id |-> task.id]]
    [] task.stage = "ProcessDependencies" ->
         [bucket |-> 3, key |-> [kind |-> "Identifier", id |-> task.id]]

(***************************************************************************)
(* QueueHandlerProcessor::get_bucket_and_key                               *)
(***************************************************************************)
GetBucketAndKey(task) ==
  CASE task.stage = "Factorize" ->
         [bucket |-> 0, key |-> [kind |-> "Dependency", id |-> task.id]]
    [] task.stage = "Add" ->
         [bucket |-> 1, key |-> [kind |-> "Identifier", id |-> task.id]]
    [] task.stage = "Build" ->
         [bucket |-> 2, key |-> [kind |-> "Identifier", id |-> task.id]]
    [] task.stage = "ProcessDependencies" ->
         [bucket |-> 3, key |-> [kind |-> "Identifier", id |-> task.id]]

(***************************************************************************)
(* The processor's state as try_process and complete_task update it.       *)
(***************************************************************************)
ProcessorState ==
  [channel |-> channel, callbacks |-> callbacks, finished |-> finished,
   queues |-> queues, fired |-> fired]

\* a callback is called: for which subscription, with which result, by which
\* method, and what the finished table held for its key at that moment
FireEvent(sub, result, by, recorded) ==
  [sub |-> sub, result |-> result, by |-> by, recorded |-> recorded]

\* mutant of the Subscription arm: the finished table is not consulted
ProcessSubscription_AlwaysQueue(st, sub) ==
  LET bk == GetBucketAndKey(subTask[sub])
  IN [st EXCEPT !.callbacks[bk.bucket][bk.key] = Append(@, sub)]

\* try_process, the QueueTask::Subscription arm
ProcessSubscription(st, sub) ==
  LET bk == GetBucketAndKey(subTask[sub])
  IN IF st.finished[bk.bucket][bk.key] # None
       THEN \* already finished: callback(*module, compilation)
            [st EXCEPT !.fired =
               Append(@, FireEvent(sub, st.finished[bk.bucket][bk.key][1],
                                   "try_process",
                                   st.finished[bk.bucket][bk.key]))]
       ELSE \* callbacks[bucket].entry(key).or_default().push(callback)
            [st EXCEPT !.callbacks[bk.bucket][bk.key] = Append(@, sub)]

\* try_process, the five task arms: xxx_queue.add_task(*task)
\* mutant of the task arms: a Build task is put on the add queue
ForwardTask_BuildToAdd(st, msg) ==
  IF msg.type = "Build"
    THEN [st EXCEPT !.queues["Add"] = Append(@, msg.id)]
    ELSE [st EXCEPT !.queues[msg.type] = Append(@, msg.id)]

ForwardTask(st, msg) ==
  [st EXCEPT !.queues[msg.type] = Append(@, msg.id)]

ProcessMessage(st, msg) ==
  IF msg.type = "Subscription"
    THEN ProcessSubscription(st, msg.sub)
    ELSE ForwardTask(st, msg)

\* mutant of the receive loop: `if let` for `while let`, one message a call
Drain_OneMessage(st) ==
  IF st.channel = <<>>
    THEN st
    ELSE ProcessMessage([st EXCEPT !.channel = Tail(@)], Head(st.channel))

\* while let Ok(task) = self.receiver.try_recv() { match task { ... } }
RECURSIVE Drain(_)
Drain(st) ==
  IF st.channel = <<>>
    THEN st
    ELSE Drain(ProcessMessage([st EXCEPT !.channel = Tail(@)], Head(st.channel)))

\* while let Some(cb) = callbacks.pop() { cb(task_result, compilation) }
RECURSIVE PopAndFire(_, _, _, _)
PopAndFire(stack, log, result, recorded) ==
  IF stack = <<>>
    THEN log
    ELSE PopAndFire(SubSeq(stack, 1, Len(stack) - 1),
                    Append(log, FireEvent(stack[Len(stack)], result,
                                          "complete_task", recorded)),
                    result, recorded)

\* mutant of complete_task: the callbacks are fired but left in the pending table
CompleteTaskEffect_NoPop(st, task, task_result) ==
  LET bk == GetBucketAndKey(task)
      inserted == [st EXCEPT !.finished[bk.bucket][bk.key] = Some(task_result)]
  IN [inserted EXCEPT
        !.fired = PopAndFire(inserted.callbacks[bk.bucket][bk.key], @, task_result,
                             inserted.finished[bk.bucket][bk.key])]

\* the callbacks of a Vec called from its front
RECURSIVE FireFromFront(_, _, _, _)
FireFromFront(stack, log, result, recorded) ==
  IF stack = <<>>
    THEN log
    ELSE FireFromFront(Tail(stack),
                       Append(log, FireEvent(Head(stack), result,
                                             "complete_task", recorded)),
                       result, recorded)

\* mutant of complete_task: the callbacks are fired first-registered-first
CompleteTaskEffect_FirstFirst(st, task, task_result) ==
  LET bk == GetBucketAndKey(task)
      inserted == [st EXCEPT !.finished[bk.bucket][bk.key] = Some(task_result)]
  IN [inserted EXCEPT
        !.fired = FireFromFront(inserted.callbacks[bk.bucket][bk.key], @,
                                task_result, inserted.finished[bk.bucket][bk.key]),
        !.callbacks[bk.bucket][bk.key] = <<>>]

\* mutant of complete_task: the pending callbacks are fired but the result is
\* not kept in the finished table
CompleteTaskEffect_NoRecord(st, task, task_result) ==
  LET bk == GetBucketAndKey(task)
  IN [st EXCEPT
        !.fired = PopAndFire(st.callbacks[bk.bucket][bk.key], @, task_result,
                             Some(task_result)),
        !.callbacks[bk.bucket][bk.key] = <<>>]

\* complete_task: finished[bucket].insert(key, task_result), then pop and fire
CompleteTaskEffect(st, task, task_result) ==
  LET bk == GetBucketAndKey(task)
      inserted == [st EXCEPT !.finished[bk.bucket][bk.key] = Some(task_result)]
  IN [inserted EXCEPT
        !.fired = PopAndFire(inserted.callbacks[bk.bucket][bk.key], @, task_result,
                             inserted.finished[bk.bucket][bk.key]),
        !.callbacks[bk.bucket][bk.key] = <<>>]

InstallProcessor(st) ==
  /\ channel' = st.channel
  /\ callbacks' = st.callbacks
  /\ finished' = st.finished
  /\ queues' = st.queues
  /\ fired' = st.fired

(***************************************************************************)
(* create_queue_handle                                                     *)
(***************************************************************************)
\* mutant of sender.send(..).expect(..): a message for a dropped receiver is
\* thrown away and the call returns
SendOrPanic_DropSilently(alive, ch, msg) ==
  IF alive THEN [ok |-> TRUE, channel |-> Append(ch, msg)]
           ELSE [ok |-> TRUE, channel |-> ch]

\* self.sender.send(msg).expect(..): send on an unbounded channel fails when,
\* and only when, the receiving end has been dropped, and expect then panics
SendOrPanic(alive, ch, msg) ==
  IF alive THEN [ok |-> TRUE, channel |-> Append(ch, msg)]
           ELSE [ok |-> FALSE, channel |-> ch]

NoWaitFor == [called |-> FALSE, alive |-> TRUE, sent |-> FALSE, outcome |-> "none"]

BusInit ==
  /\ channel = <<>>
  /\ callbacks = [b \in Buckets |-> [k \in WaitTaskKey |-> <<>>]]
  /\ finished = [b \in Buckets |-> [k \in WaitTaskKey |-> None]]
  /\ queues = [q \in TaskKinds |-> <<>>]
  /\ subTask = <<>>
  /\ nTasks = 0
  /\ fired = <<>>
  /\ completed = [t \in WaitTask |-> None]
  /\ nCompletes = 0
  /\ sentDone = <<>>
  /\ drained = <<>>
  /\ receiver_alive = TRUE
  /\ lastWaitFor = NoWaitFor
  /\ lastAddTask = "none"

(***************************************************************************)
(* QueueHandler::wait_for: send a Subscription on the channel.             *)
(***************************************************************************)
WaitFor(wait_task) ==
  LET sent == SendOrPanic(receiver_alive, channel,
                          [type |-> "Subscription", sub |-> Len(subTask) + 1])
  IN /\ Len(subTask) < MaxSubs
     /\ channel' = sent.channel
     /\ lastWaitFor' = [called |-> TRUE, alive |-> receiver_alive,
                        sent |-> sent.channel # channel,
                        outcome |-> IF sent.ok THEN "ok" ELSE "panic"]
     /\ IF sent.channel # channel
          THEN /\ subTask' = Append(subTask, wait_task)
               /\ sentDone' = Append(sentDone, completed[wait_task] # None)
               /\ drained' = Append(drained, [when |-> "no", stored |-> None])
          ELSE UNCHANGED <<subTask, sentDone, drained>>
     /\ UNCHANGED <<callbacks, finished, queues, nTasks, fired, completed,
                    nCompletes, receiver_alive, lastAddTask>>

(***************************************************************************)
(* QueueHandler::add_task: send a task on the channel.                     *)
(***************************************************************************)
AddTaskMessage(kind) ==
  LET sent == SendOrPanic(receiver_alive, channel,
                          [type |-> kind, id |-> nTasks + 1])
  IN /\ nTasks < MaxTasks
     /\ channel' = sent.channel
     /\ nTasks' = IF sent.channel # channel THEN nTasks + 1 ELSE nTasks
     /\ lastAddTask' = IF sent.ok THEN "ok" ELSE "panic"
     /\ UNCHANGED <<callbacks, finished, queues, subTask, fired, completed,
                    nCompletes, sentDone, drained, receiver_alive, lastWaitFor>>

(***************************************************************************)
(* QueueHandlerProcessor::try_process                                      *)
(***************************************************************************)
\* the subscriptions a try_process call receives: all those in the channel
InChannel(sub) == \E i \in 1..Len(channel) :
                     channel[i].type = "Subscription" /\ channel[i].sub = sub

TryProcess ==
  /\ receiver_alive
  /\ InstallProcessor(Drain(ProcessorState))
  /\ drained' = [s \in SubIds |->
                   IF InChannel(s)
                     THEN [when |-> IF completed[subTask[s]] # None
                                      THEN "after" ELSE "before",
                           stored |-> completed[subTask[s]]]
                     ELSE drained[s]]
  /\ UNCHANGED <<subTask, nTasks, completed, nCompletes, sentDone,
                 receiver_alive, lastWaitFor, lastAddTask>>

(***************************************************************************)
(* QueueHandlerProcessor::complete_task                                    *)
(***************************************************************************)
CompleteTask(task, task_result) ==
  /\ receiver_alive
  /\ nCompletes < MaxCompletes
  /\ nCompletes' = nCompletes + 1
  /\ completed' = [completed EXCEPT ![task] = Some(task_result)]
  /\ InstallProcessor(CompleteTaskEffect(ProcessorState, task, task_result))
  /\ UNCHANGED <<subTask, nTasks, sentDone, drained, receiver_alive,
                 lastWaitFor, lastAddTask>>

\* the QueueHandlerProcessor is dropped while QueueHandler clones are still
\* held: the channel is closed and what it and the tables held will never run
DropProcessor ==
  /\ receiver_alive
  /\ receiver_alive' = FALSE
  /\ UNCHANGED <<channel, callbacks, finished, queues, subTask, nTasks, fired,
                 completed, nCompletes, sentDone, drained, lastWaitFor,
                 lastAddTask>>

\* The milestones a run subscribes to and completes: one per stage for entity 1
\* (the same module identity in three buckets, and a dependency id), and a second
\* entity in the Add stage.
Min(S) == CHOOSE i \in S : \A j \in S : i <= j

OrderStages == {"Add"}

BusTasks ==
  {t \in WaitTask : t.id = 1 \/ (t.stage = "Add" /\ t.id = 2)}

(***************************************************************************)
(* ModuleGraph, as far as AddTask and CleanTask use it.  Its methods are    *)
(* defined outside queue.rs.                                               *)
(***************************************************************************)
\* the dependencies registered in the graph
KnownDependencies == DependencyIds

EmptyModuleGraph ==
  [nodes |-> {}, connections |-> {},
   resolved |-> [d \in DependencyIds |-> None]]

\* module_graph.module_graph_module_by_identifier(&m).is_some()
HasModuleGraphModule(mg, m) == m \in mg.nodes

\* mgm.incoming_connections
IncomingConnections(mg, m) == {c \in mg.connections : c.target = m}

OutgoingConnections(mg, m) == {c \in mg.connections : c.origin = Some(m)}

\* module_graph.add_module_graph_module(mgm): the graph maps an identifier to one
\* node; a node already there is kept
AddModuleGraphModule(mg, m) == [mg EXCEPT !.nodes = @ \cup {m}]

\* module_graph.set_resolved_module(original, dependency, module): a
\* graph-consistency error when the originating module or the dependency id is
\* unknown, or the module has no node; else the edge is recorded
CanSetResolvedModule(mg, original, dependency, module) ==
  /\ dependency \in KnownDependencies
  /\ original = None \/ original[1] \in mg.nodes
  /\ module \in mg.nodes

SetResolvedModuleOne(mg, original, dependency, module) ==
  [mg EXCEPT !.resolved[dependency] = Some(module),
             !.connections = @ \cup {[origin |-> original, dep |-> dependency,
                                      target |-> module]}]

\* module_graph.get_module_all_depended_modules(&m): the modules m's dependencies
\* resolve to, in dependency order
RECURSIVE DependedFrom(_, _, _)
DependedFrom(mg, m, d) ==
  IF d > MaxEntity
    THEN <<>>
    ELSE (IF \E c \in OutgoingConnections(mg, m) :
               c.dep = d /\ mg.resolved[d] = Some(c.target)
            THEN <<mg.resolved[d][1]>>
            ELSE <<>>) \o DependedFrom(mg, m, d + 1)

GetModuleAllDependedModules(mg, m) == DependedFrom(mg, m, 1)

\* module_graph.revoke_module(&m): the node goes, with the connections from and
\* to it and the resolution of its own dependencies
RevokeModule(mg, m) ==
  [nodes |-> mg.nodes \ {m},
   connections |-> {c \in mg.connections : c.origin # Some(m) /\ c.target # m},
   resolved |-> [d \in DependencyIds |->
                   IF \E c \in OutgoingConnections(mg, m) : c.dep = d
                     THEN None ELSE mg.resolved[d]]]

(***************************************************************************)
(* fn set_resolved_module (lines 325-335): one call per dependency, stopping *)
(* at the first error.                                                     *)
(***************************************************************************)
\* mutant of set_resolved_module: the loop goes on after an error and reports it
\* at the end
RECURSIVE SetResolvedModule_ContinueAfterError(_, _, _, _)
SetResolvedModule_ContinueAfterError(mg, original, dependencies, module) ==
  IF dependencies = <<>>
    THEN [ok |-> TRUE, mg |-> mg]
    ELSE IF CanSetResolvedModule(mg, original, Head(dependencies), module)
           THEN SetResolvedModule_ContinueAfterError(
                  SetResolvedModuleOne(mg, original, Head(dependencies), module),
                  original, Tail(dependencies), module)
           ELSE [ok |-> FALSE,
                 mg |-> SetResolvedModule_ContinueAfterError(
                          mg, original, Tail(dependencies), module).mg]

RECURSIVE SetResolvedModule(_, _, _, _)
SetResolvedModule(mg, original, dependencies, module) ==
  IF dependencies = <<>>
    THEN [ok |-> TRUE, mg |-> mg]
    ELSE IF CanSetResolvedModule(mg, original, Head(dependencies), module)
           THEN SetResolvedModule(
                  SetResolvedModuleOne(mg, original, Head(dependencies), module),
                  original, Tail(dependencies), module)
           ELSE [ok |-> FALSE, mg |-> mg]

(***************************************************************************)
(* AddTask::run (lines 243-322).  A task is                                 *)
(*   module: [id, self_module]   self.module.identifier(), as_self_module() *)
(*   issuer                      module_graph_module.get_issuer()           *)
(*   original                    original_module_identifier (an Option)     *)
(*   dependencies, is_entry, connect_origin                                *)
(* and always carries a creation callback.  The outcome is the compilation, *)
(* the result and whether the callback ran.                                *)
(***************************************************************************)
Compilation ==
  [module_graph |-> module_graph,
   entry_module_identifiers |-> entry_module_identifiers]

AddOutcome(comp, result, callback) ==
  [comp |-> comp, result |-> result, callback |-> callback]

\* mutant of AddTask::run: the dedup branch reports ModuleReused without
\* resolving the task's dependencies
AddTaskRun_ReuseWithoutEdges(comp, task) ==
  IF task.module.self_module /\ task.connect_origin
    THEN LET r == SetResolvedModule(comp.module_graph, task.original,
                                    task.dependencies, task.issuer)
             c == [comp EXCEPT !.module_graph = r.mg]
         IN IF r.ok THEN AddOutcome(c, "ModuleReused", FALSE)
                    ELSE AddOutcome(c, "Err", FALSE)
    ELSE IF task.connect_origin
              /\ HasModuleGraphModule(comp.module_graph, task.module.id)
           THEN AddOutcome(comp, "ModuleReused", TRUE)
           ELSE LET added == AddModuleGraphModule(comp.module_graph, task.module.id)
                    r == IF task.connect_origin
                           THEN SetResolvedModule(added, task.original,
                                                  task.dependencies, task.module.id)
                           ELSE [ok |-> TRUE, mg |-> added]
                    c == [comp EXCEPT !.module_graph = r.mg]
                IN IF ~r.ok
                     THEN AddOutcome(c, "Err", FALSE)
                     ELSE AddOutcome(
                            IF task.is_entry
                              THEN [c EXCEPT !.entry_module_identifiers =
                                               @ \cup {task.module.id}]
                              ELSE c,
                            "ModuleAdded", TRUE)

\* mutant of AddTask::run: no dedup branch, a module already in the graph is
\* added again
AddTaskRun_NoDedup(comp, task) ==
  IF task.module.self_module /\ task.connect_origin
    THEN LET r == SetResolvedModule(comp.module_graph, task.original,
                                    task.dependencies, task.issuer)
             c == [comp EXCEPT !.module_graph = r.mg]
         IN IF r.ok THEN AddOutcome(c, "ModuleReused", FALSE)
                    ELSE AddOutcome(c, "Err", FALSE)
    ELSE LET added == AddModuleGraphModule(comp.module_graph, task.module.id)
             r == IF task.connect_origin
                    THEN SetResolvedModule(added, task.original,
                                           task.dependencies, task.module.id)
                    ELSE [ok |-> TRUE, mg |-> added]
             c == [comp EXCEPT !.module_graph = r.mg]
         IN IF ~r.ok
              THEN AddOutcome(c, "Err", FALSE)
              ELSE AddOutcome(
                     IF task.is_entry
                       THEN [c EXCEPT !.entry_module_identifiers =
                                        @ \cup {task.module.id}]
                       ELSE c,
                     "ModuleAdded", TRUE)

\* mutant of AddTask::run: the self module takes the paths of any other module
AddTaskRun_NoSelfBranch(comp, task) ==
  IF task.connect_origin
       /\ HasModuleGraphModule(comp.module_graph, task.module.id)
    THEN LET r == SetResolvedModule(comp.module_graph, task.original,
                                    task.dependencies, task.module.id)
             c == [comp EXCEPT !.module_graph = r.mg]
         IN IF r.ok THEN AddOutcome(c, "ModuleReused", TRUE)
                    ELSE AddOutcome(c, "Err", FALSE)
    ELSE LET added == AddModuleGraphModule(comp.module_graph, task.module.id)
             r == IF task.connect_origin
                    THEN SetResolvedModule(added, task.original,
                                           task.dependencies, task.module.id)
                    ELSE [ok |-> TRUE, mg |-> added]
             c == [comp EXCEPT !.module_graph = r.mg]
         IN IF ~r.ok
              THEN AddOutcome(c, "Err", FALSE)
              ELSE AddOutcome(
                     IF task.is_entry
                       THEN [c EXCEPT !.entry_module_identifiers =
                                        @ \cup {task.module.id}]
                       ELSE c,
                     "ModuleAdded", TRUE)

AddTaskRun(comp, task) ==
  IF task.module.self_module /\ task.connect_origin
    THEN \* lines 248-265
         LET r == SetResolvedModule(comp.module_graph, task.original,
                                    task.dependencies, task.issuer)
             c == [comp EXCEPT !.module_graph = r.mg]
         IN IF r.ok THEN AddOutcome(c, "ModuleReused", FALSE)
                    ELSE AddOutcome(c, "Err", FALSE)
    ELSE IF task.connect_origin
              /\ HasModuleGraphModule(comp.module_graph, task.module.id)
           THEN \* lines 269-289
                LET r == SetResolvedModule(comp.module_graph, task.original,
                                           task.dependencies, task.module.id)
                    c == [comp EXCEPT !.module_graph = r.mg]
                IN IF r.ok THEN AddOutcome(c, "ModuleReused", TRUE)
                           ELSE AddOutcome(c, "Err", FALSE)
           ELSE \* lines 291-321
                LET added == AddModuleGraphModule(comp.module_graph, task.module.id)
                    r == IF task.connect_origin
                           THEN SetResolvedModule(added, task.original,
                                                  task.dependencies, task.module.id)
                           ELSE [ok |-> TRUE, mg |-> added]
                    c == [comp EXCEPT !.module_graph = r.mg]
                IN IF ~r.ok
                     THEN AddOutcome(c, "Err", FALSE)
                     ELSE AddOutcome(
                            IF task.is_entry
                              THEN [c EXCEPT !.entry_module_identifiers =
                                               @ \cup {task.module.id}]
                              ELSE c,
                            "ModuleAdded", TRUE)

\* whether AddTask::run calls add_module_graph_module for the task (line 291)
AddInserts(comp, task) ==
  /\ ~(task.module.self_module /\ task.connect_origin)
  /\ ~(task.connect_origin
         /\ HasModuleGraphModule(comp.module_graph, task.module.id))

(***************************************************************************)
(* CleanTask::run (lines 490-521)                                          *)
(***************************************************************************)
CleanOutcome(comp, result, dependents) ==
  [comp |-> comp, result |-> result, dependents |-> dependents]

\* mutant of CleanTask::run: the incoming connections are not looked at
CleanTaskRun_NoUseCheck(comp, module_identifier) ==
  IF ~HasModuleGraphModule(comp.module_graph, module_identifier)
    THEN CleanOutcome(comp, "ModuleIsCleaned", <<>>)
    ELSE CleanOutcome(
           [comp EXCEPT !.module_graph = RevokeModule(@, module_identifier)],
           "ModuleIsCleaned",
           GetModuleAllDependedModules(comp.module_graph, module_identifier))

\* mutant of CleanTask::run: the depended modules are collected after the
\* module is revoked
CleanTaskRun_CollectAfterRevoke(comp, module_identifier) ==
  IF ~HasModuleGraphModule(comp.module_graph, module_identifier)
    THEN CleanOutcome(comp, "ModuleIsCleaned", <<>>)
    ELSE IF IncomingConnections(comp.module_graph, module_identifier) # {}
           THEN CleanOutcome(comp, "ModuleIsUsed", <<>>)
           ELSE CleanOutcome(
                  [comp EXCEPT !.module_graph =
                                 RevokeModule(@, module_identifier)],
                  "ModuleIsCleaned",
                  GetModuleAllDependedModules(
                    RevokeModule(comp.module_graph, module_identifier),
                    module_identifier))

\* mutant of CleanTask::run: the module is reported as cleaned and not revoked
CleanTaskRun_NoRevoke(comp, module_identifier) ==
  IF ~HasModuleGraphModule(comp.module_graph, module_identifier)
    THEN CleanOutcome(comp, "ModuleIsCleaned", <<>>)
    ELSE IF IncomingConnections(comp.module_graph, module_identifier) # {}
           THEN CleanOutcome(comp, "ModuleIsUsed", <<>>)
           ELSE CleanOutcome(comp, "ModuleIsCleaned",
                             GetModuleAllDependedModules(comp.module_graph,
                                                         module_identifier))

\* mutant of CleanTask::run: a module without a node is reported as used
CleanTaskRun_AbsentIsUsed(comp, module_identifier) ==
  IF ~HasModuleGraphModule(comp.module_graph, module_identifier)
    THEN CleanOutcome(comp, "ModuleIsUsed", <<>>)
    ELSE IF IncomingConnections(comp.module_graph, module_identifier) # {}
           THEN CleanOutcome(comp, "ModuleIsUsed", <<>>)
           ELSE CleanOutcome(
                  [comp EXCEPT !.module_graph =
                                 RevokeModule(@, module_identifier)],
                  "ModuleIsCleaned",
                  GetModuleAllDependedModules(comp.module_graph,
                                              module_identifier))

CleanTaskRun(comp, module_identifier) ==
  IF ~HasModuleGraphModule(comp.module_graph, module_identifier)
    THEN CleanOutcome(comp, "ModuleIsCleaned", <<>>)
    ELSE IF IncomingConnections(comp.module_graph, module_identifier) # {}
           THEN CleanOutcome(comp, "ModuleIsUsed", <<>>)
           ELSE CleanOutcome(
                  [comp EXCEPT !.module_graph =
                                 RevokeModule(@, module_identifier)],
                  "ModuleIsCleaned",
                  GetModuleAllDependedModules(comp.module_graph,
                                              module_identifier))

(***************************************************************************)
(* The graph-integration actor: Add and Clean tasks run one at a time on    *)
(* the compilation.                                                        *)
(***************************************************************************)
NoAdd ==
  [task |-> None, existed |-> FALSE, inserted |-> FALSE, result |-> "none",
   callback |-> FALSE]
NoClean ==
  [module |-> None, had_node |-> FALSE, had_incoming |-> FALSE,
   depended |-> {}, changed |-> FALSE, node_after |-> FALSE, result |-> "none",
   dependents |-> <<>>]

GraphInit ==
  /\ module_graph = EmptyModuleGraph
  /\ entry_module_identifiers = {}
  /\ lastAdd = NoAdd
  /\ nAdds = 0
  /\ addedReports = [m \in ModuleIdentifiers |-> [connected |-> 0, unconnected |-> 0]]
  /\ lastClean = NoClean
  /\ removed = {}

\* the increasing sequences of ids of `deps` of length at most n (a module's
\* dependencies in declaration order)
RECURSIVE DepSeqs(_, _)
DepSeqs(deps, n) ==
  IF n = 0
    THEN {<<>>}
    ELSE LET shorter == DepSeqs(deps, n - 1)
         IN shorter \cup {Append(q, d) : q \in {q \in shorter : Len(q) = n - 1},
                                         d \in deps}

Range(q) == {q[i] : i \in 1..Len(q)}

Increasing(q) == \A i, j \in 1..Len(q) : i < j => q[i] < q[j]

TaskDependencies(deps) == {q \in DepSeqs(deps, MaxTaskDeps) : Increasing(q)}

Unresolved == {d \in DependencyIds : module_graph.resolved[d] = None}

\* The Add tasks the orchestrator makes from a Factorize result: the originating
\* module, when there is one, is in the graph and is the issuer; a self module
\* has an issuer; an entry has no originating module; the dependencies are
\* registered and not resolved yet (each is consumed by one Factorize task).
AddTask(id, self_module, original, dependencies, is_entry, connect_origin) ==
  [module |-> [id |-> id, self_module |-> self_module],
   issuer |-> IF original = None THEN id ELSE original[1],
   original |-> original,
   dependencies |-> dependencies,
   is_entry |-> is_entry,
   connect_origin |-> connect_origin]

WellFormedAdd(task) ==
  /\ task.original # None => task.original[1] \in module_graph.nodes
  /\ task.original = None => ~task.module.self_module
  /\ task.is_entry <=> task.original = None
  /\ \A d \in Range(task.dependencies) : module_graph.resolved[d] = None

\* AddTask::run on the compilation, for any task, in a run of at most limit Add
\* tasks
AddTaskStepWithin(task, limit) ==
  LET out == AddTaskRun(Compilation, task)
  IN /\ nAdds < limit
     /\ nAdds' = nAdds + 1
     /\ module_graph' = out.comp.module_graph
     /\ entry_module_identifiers' = out.comp.entry_module_identifiers
     /\ lastAdd' = [task |-> Some(task),
                    existed |-> HasModuleGraphModule(module_graph, task.module.id),
                    inserted |-> AddInserts(Compilation, task),
                    result |-> out.result,
                    callback |-> out.callback]
     /\ addedReports' =
          IF out.result # "ModuleAdded"
            THEN addedReports
            ELSE IF task.connect_origin
                   THEN [addedReports EXCEPT ![task.module.id].connected = @ + 1]
                   ELSE [addedReports EXCEPT ![task.module.id].unconnected = @ + 1]
     /\ lastClean' = NoClean
     /\ UNCHANGED removed

AddTaskStep(task) == AddTaskStepWithin(task, MaxAdds)

AddRun(task) == WellFormedAdd(task) /\ AddTaskStep(task)

CleanRun(module_identifier) ==
  LET out == CleanTaskRun(Compilation, module_identifier)
  IN /\ module_graph' = out.comp.module_graph
     /\ entry_module_identifiers' = out.comp.entry_module_identifiers
     /\ lastClean' = [module |-> Some(module_identifier),
                      had_node |-> module_identifier \in module_graph.nodes,
                      had_incoming |->
                        \E c \in module_graph.connections : c.target = module_identifier,
                      depended |->
                        {c.target : c \in {c \in module_graph.connections :
                                             c.origin = Some(module_identifier)}},
                      changed |-> out.comp # Compilation,
                      node_after |-> module_identifier \in out.comp.module_graph.nodes,
                      result |-> out.result,
                      dependents |-> out.dependents]
     /\ removed' = IF module_identifier \in module_graph.nodes
                        /\ module_identifier \notin out.comp.module_graph.nodes
                     THEN removed \cup {module_identifier}
                     ELSE removed
     /\ lastAdd' = NoAdd
     /\ UNCHANGED <<nAdds, addedReports>>

GraphAdd ==
  /\ nAdds < MaxAdds
  /\ \E original \in {None} \cup {Some(m) : m \in module_graph.nodes},
        dependencies \in TaskDependencies(Unresolved) :
       \E id \in ModuleIdentifiers,
          self_module \in IF original = None THEN {FALSE} ELSE BOOLEAN,
          is_entry \in {original = None},
          connect_origin \in BOOLEAN :
         AddRun(AddTask(id, self_module, original, dependencies, is_entry,
                        connect_origin))
  /\ UNCHANGED <<busVars, makeVars, buildVars>>

\* Add tasks created with connect_origin, as a run with several entries creates
\* them: an entry can be a module that another module depends on, which takes
\* one Add task more
MaxEntryAdds == MaxAdds + 1

GraphAddEntry ==
  /\ \E original \in {None} \cup {Some(m) : m \in module_graph.nodes},
        dependencies \in TaskDependencies(Unresolved) :
       \E id \in ModuleIdentifiers,
          self_module \in IF original = None THEN {FALSE} ELSE BOOLEAN,
          is_entry \in {original = None} :
         LET task == AddTask(id, self_module, original, dependencies, is_entry,
                             TRUE)
         IN WellFormedAdd(task) /\ AddTaskStepWithin(task, MaxEntryAdds)
  /\ UNCHANGED <<busVars, makeVars, buildVars>>

GraphClean ==
  /\ \E m \in ModuleIdentifiers : CleanRun(m)
  /\ UNCHANGED <<busVars, makeVars, buildVars>>

GraphNext == GraphAdd \/ GraphClean

\* Add tasks created with connect_origin that need not fit the graph: the
\* originating module may have no node and a dependency id may be unregistered,
\* at any place among the registered ones, which are in declaration order and
\* not resolved yet
UnknownDependency == MaxEntity + 1

MaxAnyTaskDeps == MaxTaskDeps + 1

NoRepeat(q) == \A i, j \in 1..Len(q) : i # j => q[i] # q[j]

IsRegistered(d) == d \in KnownDependencies

AnyTaskDependencies ==
  {q \in DepSeqs(Unresolved \cup {UnknownDependency}, MaxAnyTaskDeps) :
     NoRepeat(q) /\ Increasing(SelectSeq(q, IsRegistered))}

GraphAddAny ==
  /\ \E original \in {None} \cup {Some(m) : m \in ModuleIdentifiers},
        dependencies \in AnyTaskDependencies :
       \E id \in ModuleIdentifiers,
          self_module \in IF original = None THEN {FALSE} ELSE BOOLEAN,
          is_entry \in {original = None} :
         AddTaskStep(AddTask(id, self_module, original, dependencies, is_entry,
                             TRUE))
  /\ UNCHANGED <<busVars, makeVars, buildVars>>

\* no task is run after one that failed: the error ends the run
GraphAnyNext == lastAdd.result # "Err" /\ (GraphAdd \/ GraphAddAny)

(***************************************************************************)
(* FactorizeTask::run, and the run that makes the tasks and consumes their *)
(* results.  The run itself is defined outside queue.rs.                   *)
(***************************************************************************)
Diagnostic(kind, dependency) == [kind |-> kind, dependency |-> dependency]

\* the diagnostics the factory leaves in create_data.diagnostics
SoftDiagnostics(dependency) == {<<>>, <<Diagnostic("soft", dependency)>>}

\* what module_factory.create(&mut create_data) can answer for a dependency
FactoryOutcomes(dependency) ==
  {[ok |-> TRUE, module |-> Some(m), diagnostics |-> q] :
     m \in ModuleIdentifiers, q \in SoftDiagnostics(dependency)}
  \cup {[ok |-> FALSE, module |-> None, diagnostics |-> q] :
          q \in SoftDiagnostics(dependency)}

FactorizeTask(dependency, original_module_identifier, is_entry) ==
  [dependency |-> dependency,
   original_module_identifier |-> original_module_identifier,
   dependencies |-> <<dependency>>,
   is_entry |-> is_entry,
   connect_origin |-> TRUE]

FactorizeTaskResult(task) ==
  [dependency |-> task.dependency,
   original_module_identifier |-> task.original_module_identifier,
   factory_result |-> None,
   dependencies |-> task.dependencies,
   is_entry |-> task.is_entry,
   exports_info_related |-> TRUE,
   diagnostics |-> <<>>,
   connect_origin |-> task.connect_origin]

FactorizeOk(result) == [ok |-> TRUE, error |-> None, result |-> Some(result)]

FactorizeErr(e) == [ok |-> FALSE, error |-> Some(e), result |-> None]

\* mutant of FactorizeTask::run: the error is put after the soft diagnostics
FactorizeTaskRun_ErrorLast(task, opts, created) ==
  LET factorize_task_result == FactorizeTaskResult(task)
      e == Diagnostic("error", task.dependency)
  IN IF created.ok
       THEN FactorizeOk([factorize_task_result EXCEPT
                           !.factory_result = created.module,
                           !.diagnostics = created.diagnostics])
       ELSE IF opts.bail
              THEN FactorizeErr(e)
              ELSE FactorizeOk([factorize_task_result EXCEPT
                                  !.diagnostics = created.diagnostics \o <<e>>])

\* mutant of FactorizeTask::run: options.bail is not read
FactorizeTaskRun_IgnoreBail(task, opts, created) ==
  LET factorize_task_result == FactorizeTaskResult(task)
  IN IF created.ok
       THEN FactorizeOk([factorize_task_result EXCEPT
                           !.factory_result = created.module,
                           !.diagnostics = created.diagnostics])
       ELSE FactorizeOk([factorize_task_result EXCEPT
                           !.diagnostics =
                              <<Diagnostic("error", task.dependency)>>
                                \o created.diagnostics])

FactorizeTaskRun(task, opts, created) ==
  LET factorize_task_result == FactorizeTaskResult(task)
      e == Diagnostic("error", task.dependency)
  IN IF created.ok
       THEN FactorizeOk([factorize_task_result EXCEPT
                           !.factory_result = created.module,
                           !.diagnostics = created.diagnostics])
       ELSE IF opts.bail
              THEN FactorizeErr(e)
              ELSE FactorizeOk([factorize_task_result EXCEPT
                                  !.diagnostics = <<e>> \o created.diagnostics])

NoDepLog ==
  [created |-> FALSE, original |-> None, factory |-> "none", module |-> None, soft |-> <<>>, returned |-> "none",
   handled |-> FALSE, add_task |-> FALSE]

MakeInit ==
  /\ options = [bail |-> FALSE]
  /\ make_state = "idle"
  /\ factorize_queue = {}
  /\ task_results = {}
  /\ add_queue = {}
  /\ build_queue = {}
  /\ diagnostics = <<>>
  /\ unlinked = {}
  /\ depLog = [d \in DependencyIds |-> NoDepLog]

\* the dependencies no Factorize task was made for yet
FreshDependencies ==
  {d \in DependencyIds :
     /\ depLog[d].factory = "none"
     /\ \A t \in factorize_queue : t.dependency # d}

\* the run starts: a Factorize task for each entry dependency
MakeStart ==
  /\ make_state = "idle"
  /\ \E bail \in BOOLEAN, entries \in SUBSET DependencyIds \ {{}} :
       /\ options' = [bail |-> bail]
       /\ factorize_queue' = {FactorizeTask(d, None, TRUE) : d \in entries}
       /\ depLog' = [d \in DependencyIds |->
                       IF d \in entries
                         THEN [depLog[d] EXCEPT !.created = TRUE]
                         ELSE depLog[d]]
  /\ make_state' = "running"
  /\ UNCHANGED <<task_results, add_queue, build_queue, diagnostics, unlinked>>
  /\ UNCHANGED <<busVars, graphVars, buildVars>>

\* a worker runs a Factorize task
MakeFactorize ==
  /\ \E task \in factorize_queue :
       \E created \in FactoryOutcomes(task.dependency) :
         LET out == FactorizeTaskRun(task, options, created)
         IN /\ factorize_queue' = factorize_queue \ {task}
            /\ task_results' =
                 task_results \cup {[dependency |-> task.dependency, out |-> out]}
            /\ depLog' = [depLog EXCEPT ![task.dependency] =
                            [@ EXCEPT !.factory = IF created.ok THEN "ok" ELSE "err",
                                      !.module = created.module,
                                      !.soft = created.diagnostics,
                                      !.returned = IF out.ok THEN "Result" ELSE "Err"]]
  /\ UNCHANGED <<options, make_state, add_queue, build_queue, diagnostics,
                 unlinked>>
  /\ UNCHANGED <<busVars, graphVars, buildVars>>

\* the run consumes what a Factorize task returned: an error ends the run; a
\* result gives its diagnostics to the run and, if it carries a module, an Add task
MakeHandleFactorize ==
  /\ make_state = "running"
  /\ \E r \in task_results :
       /\ task_results' = task_results \ {r}
       /\ depLog' = [depLog EXCEPT ![r.dependency].handled = TRUE,
                                   ![r.dependency].add_task =
                                      r.out.ok /\ r.out.result[1].factory_result # None]
       /\ IF ~r.out.ok
            THEN /\ make_state' = "aborted"
                 /\ UNCHANGED <<add_queue, diagnostics>>
            ELSE LET result == r.out.result[1]
                 IN /\ make_state' = make_state
                    /\ diagnostics' = diagnostics \o result.diagnostics
                    /\ add_queue' =
                         IF result.factory_result = None
                           THEN add_queue
                           ELSE add_queue \cup
                                  {AddTask(result.factory_result[1], FALSE,
                                           result.original_module_identifier,
                                           result.dependencies, result.is_entry,
                                           result.connect_origin)}
  /\ UNCHANGED <<options, factorize_queue, build_queue, unlinked>>
  /\ UNCHANGED <<busVars, graphVars, buildVars>>

\* the run runs an Add task; a module reported as ModuleAdded goes on to be built
MakeAdd ==
  /\ make_state = "running"
  /\ \E task \in add_queue :
       /\ AddRun(task)
       /\ add_queue' = add_queue \ {task}
       /\ build_queue' = IF lastAdd'.result = "ModuleAdded"
                           THEN build_queue \cup {task.module.id}
                           ELSE build_queue
  /\ UNCHANGED <<options, make_state, factorize_queue, task_results, diagnostics,
                 unlinked, depLog>>
  /\ UNCHANGED <<busVars, buildVars>>

\* a module is built and its dependencies are processed: a Factorize task for
\* each dependency the build discovered
MakeBuild ==
  /\ make_state = "running"
  /\ \E m \in build_queue, discovered \in SUBSET FreshDependencies :
       /\ build_queue' = build_queue \ {m}
       /\ factorize_queue' =
            factorize_queue \cup {FactorizeTask(d, Some(m), FALSE) : d \in discovered}
       /\ depLog' = [d \in DependencyIds |->
                       IF d \in discovered
                         THEN [depLog[d] EXCEPT !.created = TRUE,
                                                !.original = Some(m)]
                         ELSE depLog[d]]
  /\ UNCHANGED <<options, make_state, task_results, add_queue, diagnostics,
                 unlinked>>
  /\ UNCHANGED <<busVars, graphVars, buildVars>>

\* nothing is left to do: the run completes
MakeFinish ==
  /\ make_state = "running"
  /\ factorize_queue = {} /\ task_results = {} /\ add_queue = {} /\ build_queue = {}
  /\ make_state' = "done"
  /\ UNCHANGED <<options, factorize_queue, task_results, add_queue, build_queue,
                 diagnostics, unlinked, depLog>>
  /\ UNCHANGED <<busVars, graphVars, buildVars>>

MakeNext ==
  \/ MakeStart \/ MakeFactorize \/ MakeHandleFactorize
  \/ MakeAdd \/ MakeBuild \/ MakeFinish

\* module_graph without the connection of a dependency and without its
\* resolution
RemoveConnection(mg, dependency) ==
  [mg EXCEPT !.connections = {c \in @ : c.dep # dependency},
             !.resolved[dependency] = None]

\* after the run, a module no longer has one of its dependencies: the edge is
\* taken out of the graph
MakeRemoveConnection ==
  /\ make_state = "done"
  /\ \E c \in module_graph.connections :
       /\ c.origin # None
       /\ module_graph' = RemoveConnection(module_graph, c.dep)
       /\ unlinked' = unlinked \cup {c.dep}
  /\ lastAdd' = NoAdd
  /\ lastClean' = NoClean
  /\ UNCHANGED <<entry_module_identifiers, nAdds, addedReports, removed>>
  /\ UNCHANGED <<options, make_state, factorize_queue, task_results, add_queue,
                 build_queue, diagnostics, depLog>>
  /\ UNCHANGED <<busVars, buildVars>>

\* after the run, a Clean task is run
MakeClean ==
  /\ make_state = "done"
  /\ \E m \in ModuleIdentifiers : CleanRun(m)
  /\ UNCHANGED <<busVars, makeVars, buildVars>>

MakeCleanNext ==
  \/ MakeStart \/ MakeFactorize \/ MakeHandleFactorize
  \/ MakeAdd \/ MakeBuild \/ MakeFinish
  \/ MakeRemoveConnection \/ MakeClean

(***************************************************************************)
(* BuildTask::run.  The cache occasion, the hooks and the module's build   *)
(* are defined outside queue.rs.                                           *)
(***************************************************************************)
\* what the hooks and the module's build answer in one call
BuildAnswers ==
  [build_module : BOOLEAN, build : BOOLEAN, succeed_module : BOOLEAN,
   still_valid_module : BOOLEAN]

\* the closure given to use_cache: the build_module hook, module.build, the
\* succeed_module hook; a failing hook panics
BuildClosure(answers) ==
  IF ~answers.build_module
    THEN [panic |-> TRUE, events |-> <<"build_module">>, result |-> "none"]
    ELSE IF ~answers.succeed_module
           THEN [panic |-> TRUE,
                 events |-> <<"build_module", "build", "succeed_module">>,
                 result |-> "none"]
           ELSE [panic |-> FALSE,
                 events |-> <<"build_module", "build", "succeed_module">>,
                 result |-> IF answers.build THEN "Ok" ELSE "Err"]

\* cache.build_module_occasion.use_cache(&mut module, closure): an error of the
\* cache itself, or the result it holds for the module without a call of the
\* closure, or the result of the closure
UseCache(cache, answers) ==
  IF cache.fails
    THEN [err |-> TRUE, panic |-> FALSE, events |-> <<>>, result |-> "none",
          is_cache_valid |-> None]
    ELSE IF cache.hit
           THEN [err |-> FALSE, panic |-> FALSE, events |-> <<>>,
                 result |-> "Ok", is_cache_valid |-> Some(TRUE)]
           ELSE LET c == BuildClosure(answers)
                IN [err |-> FALSE, panic |-> c.panic, events |-> c.events,
                    result |-> c.result,
                    is_cache_valid |-> IF c.panic THEN None ELSE Some(FALSE)]

BuildOutcome(outcome, events, is_cache_valid, from_cache) ==
  [outcome |-> outcome, events |-> events, is_cache_valid |-> is_cache_valid,
   from_cache |-> from_cache]

\* mutant of BuildTask::run: the still_valid_module hook is called after every
\* use_cache
BuildTaskRun_AlwaysStillValid(cache, answers) ==
  LET used == UseCache(cache, answers)
  IN IF used.panic \/ used.err
       THEN BuildOutcome("Panic", used.events, used.is_cache_valid, None)
       ELSE LET events == used.events \o <<"still_valid_module">>
            IN IF ~answers.still_valid_module
                 THEN BuildOutcome("Err", events, used.is_cache_valid, None)
                 ELSE IF used.result = "Err"
                        THEN BuildOutcome("Err", events, used.is_cache_valid, None)
                        ELSE BuildOutcome("Ok", events, used.is_cache_valid,
                                          used.is_cache_valid)

BuildTaskRun(cache, answers) ==
  LET used == UseCache(cache, answers)
  IN IF used.panic \/ used.err
       THEN BuildOutcome("Panic", used.events, used.is_cache_valid, None)
       ELSE LET is_cache_valid == used.is_cache_valid[1]
                events == IF is_cache_valid
                            THEN used.events \o <<"still_valid_module">>
                            ELSE used.events
            IN IF is_cache_valid /\ ~answers.still_valid_module
                 THEN BuildOutcome("Err", events, used.is_cache_valid, None)
                 ELSE IF used.result = "Err"
                        THEN BuildOutcome("Err", events, used.is_cache_valid, None)
                        ELSE BuildOutcome("Ok", events, used.is_cache_valid,
                                          Some(is_cache_valid))

NoBuild ==
  [module |-> None, stored |-> FALSE, cache |-> [fails |-> FALSE, hit |-> FALSE],
   answers |-> [build_module |-> TRUE, build |-> TRUE, succeed_module |-> TRUE,
                still_valid_module |-> TRUE],
   out |-> BuildOutcome("none", <<>>, None, None)]

BuildInit ==
  /\ build_cache = {}
  /\ lastBuild = NoBuild

\* a worker runs a Build task for a module; the cache can replay only a result
\* it holds, and holds the result of a build that has run and succeeded; a
\* result it holds and finds out of date is dropped
BuildRun ==
  /\ \E module \in ModuleIdentifiers, fails \in BOOLEAN, unchanged \in BOOLEAN,
        answers \in BuildAnswers :
       LET cache == [fails |-> fails,
                     hit |-> module \in build_cache /\ unchanged]
           out == BuildTaskRun(cache, answers)
       IN /\ lastBuild' = [module |-> Some(module),
                           stored |-> module \in build_cache,
                           cache |-> cache, answers |-> answers, out |-> out]
          /\ build_cache' =
               IF fails \/ cache.hit
                 THEN build_cache
                 ELSE IF out.outcome = "Ok"
                        THEN build_cache \cup {module}
                        ELSE build_cache \ {module}
  /\ UNCHANGED <<busVars, graphVars, makeVars>>

BusWaitFor ==
  /\ \E t \in BusTasks : WaitFor(t)
  /\ UNCHANGED <<graphVars, makeVars, buildVars>>

BusTryProcess == TryProcess /\ UNCHANGED <<graphVars, makeVars, buildVars>>

BusCompleteTask ==
  /\ \E t \in BusTasks, r \in WaitTaskResult : CompleteTask(t, r)
  /\ UNCHANGED <<graphVars, makeVars, buildVars>>

BusAddTask ==
  /\ \E k \in TaskKinds : AddTaskMessage(k)
  /\ UNCHANGED <<graphVars, makeVars, buildVars>>

BusDropProcessor == DropProcessor /\ UNCHANGED <<graphVars, makeVars, buildVars>>

\* complete_task with one result value
BusCompleteTaskOnce ==
  /\ \E t \in BusTasks : CompleteTask(t, 1)
  /\ UNCHANGED <<graphVars, makeVars, buildVars>>

BusDropNext ==
  BusWaitFor \/ BusTryProcess \/ BusCompleteTaskOnce \/ BusDropProcessor

BusNext == BusWaitFor \/ BusTryProcess \/ BusCompleteTask

\* the milestones waited for while tasks are re-injected
OrderTasks == {t \in BusTasks : t.stage \in OrderStages /\ t.id = Min(ModuleIdentifiers)}

BusWaitForOrder ==
  /\ \E t \in OrderTasks : WaitFor(t)
  /\ UNCHANGED <<graphVars, makeVars, buildVars>>

BusCompleteOrder ==
  /\ \E t \in OrderTasks : CompleteTask(t, t.id)
  /\ UNCHANGED <<graphVars, makeVars, buildVars>>

\* the milestones of one module: it is added, then built
ModuleTasks ==
  {t \in BusTasks : t.stage \in {"Add", "Build"} /\ t.id = Min(ModuleIdentifiers)}

BusWaitForModule ==
  /\ \E t \in ModuleTasks : WaitFor(t)
  /\ UNCHANGED <<graphVars, makeVars, buildVars>>

BusCompleteModule ==
  /\ \E t \in ModuleTasks : CompleteTask(t, t.id)
  /\ UNCHANGED <<graphVars, makeVars, buildVars>>

\* the bus with the milestones of one module
BusModuleNext == BusWaitForModule \/ BusTryProcess \/ BusCompleteModule

\* the bus with tasks re-injected through add_task as well
BusTasksNext ==
  BusWaitForOrder \/ BusTryProcess \/ BusCompleteOrder \/ BusAddTask

Init == BusInit /\ GraphInit /\ MakeInit /\ BuildInit

SpecBus == Init /\ [][BusNext]_vars

SpecBusTasks == Init /\ [][BusTasksNext]_vars

\* the bus on which try_process is called again as long as the channel holds a
\* message
SpecBusFair == Init /\ [][BusModuleNext]_vars /\ WF_vars(BusTryProcess)

\* the bus with a processor that can be dropped
SpecBusDrop == Init /\ [][BusDropNext]_vars

SpecGraph == Init /\ [][GraphNext]_vars

\* Add tasks only
SpecAdd == Init /\ [][GraphAdd]_vars

\* Add tasks of a run with several entries
SpecAddEntry == Init /\ [][GraphAddEntry]_vars

\* Add tasks that need not fit the graph
SpecAddAny == Init /\ [][GraphAnyNext]_vars

\* a run of the pipeline
SpecMake == Init /\ [][MakeNext]_vars

\* Build tasks
SpecBuild == Init /\ [][BuildRun]_vars

\* a run of the pipeline, and the graph taken apart afterwards
SpecMakeClean == Init /\ [][MakeCleanNext]_vars

\* a run of the pipeline in which a task that can run is run in the end
SpecMakeFair == SpecMake /\ WF_vars(MakeNext)

(***************************************************************************)
(* Claims about the completion bus.                                        *)
(***************************************************************************)
\* the invocations of subscription s's callback
FiresOf(s) == {i \in 1..Len(fired) : fired[i].sub = s}
FireCount(s) == Cardinality(FiresOf(s))

\* s is in the pending table, under the bucket and key of its own task
IsPending(s) ==
  LET bk == GetBucketAndKey(subTask[s])
  IN \E i \in 1..Len(callbacks[bk.bucket][bk.key]) :
       callbacks[bk.bucket][bk.key][i] = s

\* s is somewhere in the pending tables
InSomeTable(s) ==
  \E b \in Buckets, k \in WaitTaskKey :
    \E i \in 1..Len(callbacks[b][k]) : callbacks[b][k][i] = s

\* C1: a callback is never invoked before complete_task has been called for its
\* own (stage, entity); while complete_task has not been called for that key, a
\* subscription received by try_process stays in the pending table, unfired.
C1_NoFireBeforeComplete ==
  /\ \A i \in 1..Len(fired) : completed[subTask[fired[i].sub]] # None
  /\ \A s \in SubIds :
       (drained[s].when # "no" /\ completed[subTask[s]] = None)
         => (FireCount(s) = 0 /\ IsPending(s))

\* a subscription is pending on a key never completed while complete_task has
\* been called for another key and fired another subscription
C1_Witness ==
  \E s, o \in SubIds :
    /\ drained[s].when = "before"
    /\ completed[subTask[s]] = None
    /\ IsPending(s)
    /\ FireCount(o) = 1

\* C2: no callback is invoked more than once, and a subscription received
\* before its milestone completed has been invoked exactly once, by
\* complete_task, as soon as complete_task has been called for its key, however
\* often complete_task is called for that key afterwards.
C2_ExactlyOnce ==
  \A s \in SubIds :
    /\ FireCount(s) <= 1
    /\ (drained[s].when = "before" /\ completed[subTask[s]] # None)
         => /\ FireCount(s) = 1
            /\ \A i \in FiresOf(s) : fired[i].by = "complete_task"
            /\ ~InSomeTable(s)

\* complete_task was called twice for the key of a subscription that was pending
C2_Witness ==
  /\ nCompletes = 2
  /\ Cardinality({t \in WaitTask : completed[t] # None}) = 1
  /\ \E s \in SubIds :
       /\ drained[s].when = "before"
       /\ completed[subTask[s]] # None
       /\ FireCount(s) = 1

\* C3: a key complete_task was called for stays in its stage's finished table,
\* and a subscription try_process receives after that is fired inside that
\* try_process call, once, with the stored result, and never put in the pending
\* table.
C3_FinishedKept ==
  /\ \A t \in WaitTask :
       completed[t] # None =>
         finished[GetBucketAndKey(t).bucket][GetBucketAndKey(t).key] = completed[t]
  /\ \A s \in SubIds :
       drained[s].when = "after" =>
         /\ FireCount(s) = 1
         /\ \A i \in FiresOf(s) :
              fired[i].by = "try_process" /\ Some(fired[i].result) = drained[s].stored
         /\ ~InSomeTable(s)

\* a subscription sent before its milestone completed and received after it, the
\* key having been completed twice
C3_Witness ==
  \E s \in SubIds :
    /\ ~sentDone[s]
    /\ drained[s].when = "after"
    /\ nCompletes = 2
    /\ FireCount(s) = 1

\* C4 as claimed: once wait_for has been called for a completed milestone, the
\* callback has been fired (by the wait_for call itself).
C4_FiredByWaitFor ==
  \A s \in SubIds : sentDone[s] => FireCount(s) = 1

\* C4 as amended: wait_for for a completed milestone only sends the subscription;
\* the callback is fired inside the try_process call that receives it, once,
\* with the stored result, and is unfired until then.
C4_FiredByTryProcess ==
  \A s \in SubIds :
    sentDone[s] =>
      \/ drained[s].when = "no" /\ InChannel(s) /\ FireCount(s) = 0
      \/ /\ drained[s].when = "after"
         /\ ~InChannel(s)
         /\ FireCount(s) = 1
         /\ \A i \in FiresOf(s) :
              fired[i].by = "try_process" /\ Some(fired[i].result) = drained[s].stored

\* a subscription sent after its milestone completed has been fired by try_process
C4_Witness ==
  \E s \in SubIds :
    /\ sentDone[s]
    /\ \E i \in FiresOf(s) : fired[i].by = "try_process"

(***************************************************************************)
(* Claims about Add and Clean.                                             *)
(***************************************************************************)
AddStep == nAdds' = nAdds + 1

ResolvedTo(mg, m) == {d \in DependencyIds : mg.resolved[d] = Some(m)}

C7_UsedModuleKept ==
  [][/\ (lastClean'.had_node /\ lastClean'.had_incoming)
          => (lastClean'.result = "ModuleIsUsed" /\ ~lastClean'.changed)
     /\ \A m \in module_graph.nodes :
          IncomingConnections(module_graph, m) # {}
            => m \in module_graph'.nodes]_vars

\* Clean has run on a module with an incoming connection
C7_Witness ==
  /\ lastClean.had_node
  /\ lastClean.had_incoming
  /\ lastClean.result = "ModuleIsUsed"
  /\ lastClean.module[1] \in module_graph.nodes

\* C8: Clean of a module that has a node and no incoming connection reports
\* ModuleIsCleaned, the node is gone after the call, and the reported list holds
\* exactly the modules its connections led to before the call.
C8_UnusedModuleCleaned ==
  (lastClean.had_node /\ ~lastClean.had_incoming)
    => /\ lastClean.result = "ModuleIsCleaned"
       /\ ~lastClean.node_after
       /\ lastClean.changed
       /\ Range(lastClean.dependents) = lastClean.depended

\* Clean has removed a module that depended on another
C8_Witness ==
  /\ lastClean.had_node
  /\ lastClean.result = "ModuleIsCleaned"
  /\ lastClean.dependents # <<>>
  /\ lastClean.module[1] \notin module_graph.nodes

\* C9: Clean of an identifier that has no node reports ModuleIsCleaned with an
\* empty list and changes nothing in the compilation.
C9_CleanAbsentIdempotent ==
  (lastClean.module # None /\ ~lastClean.had_node)
    => /\ lastClean.result = "ModuleIsCleaned"
       /\ lastClean.dependents = <<>>
       /\ ~lastClean.changed

\* a second Clean of a module an earlier Clean removed
C9_Witness ==
  /\ lastClean.module # None
  /\ ~lastClean.had_node
  /\ lastClean.module[1] \in removed
  /\ lastClean.module[1] \notin module_graph.nodes

(***************************************************************************)
(* Claims about Factorize.                                                 *)
(***************************************************************************)
\* C10: when the factory fails for a dependency and options.bail is set,
\* FactorizeTask::run returns the error and no Factorize result; no Add task is
\* made for the dependency, the run does not complete, and it is aborted as soon
\* as it has handled what the task returned.
C10_BailAborts ==
  \A d \in DependencyIds :
    (options.bail /\ depLog[d].factory = "err")
      => /\ depLog[d].returned = "Err"
         /\ \A r \in task_results :
              r.dependency = d => (~r.out.ok /\ r.out.result = None)
         /\ ~depLog[d].add_task
         /\ \A t \in add_queue : d \notin Range(t.dependencies)
         /\ module_graph.resolved[d] = None
         /\ make_state # "done"
         /\ depLog[d].handled => make_state = "aborted"

\* under bail, a module is in the graph, the factory has failed for a
\* dependency, and the run has handled the error
C10_Witness ==
  /\ options.bail
  /\ make_state = "aborted"
  /\ \E d \in DependencyIds :
       /\ depLog[d].factory = "err"
       /\ depLog[d].handled
  /\ module_graph.nodes # {}

\* C11: when the factory fails for a dependency and options.bail is not set,
\* FactorizeTask::run returns a result with no factory_result whose diagnostics
\* are the error followed by the soft diagnostics of the factory; the run takes
\* the diagnostics over, makes no Add task for the dependency, resolves it to no
\* module, is not aborted, and completes.
C11_TolerantContinues ==
  /\ [](\A d \in DependencyIds :
          (~options.bail /\ depLog[d].factory = "err")
            => /\ depLog[d].returned = "Result"
               /\ \A r \in task_results :
                    r.dependency = d
                      => /\ r.out.ok
                         /\ r.out.result[1].factory_result = None
                         /\ r.out.result[1].diagnostics =
                              <<Diagnostic("error", d)>> \o depLog[d].soft
               /\ depLog[d].handled
                    => \E i \in 1..Len(diagnostics) :
                         /\ diagnostics[i] = Diagnostic("error", d)
                         /\ \A j \in 1..Len(depLog[d].soft) :
                              /\ i + j <= Len(diagnostics)
                              /\ diagnostics[i + j] = depLog[d].soft[j]
               /\ ~depLog[d].add_task
               /\ \A t \in add_queue : d \notin Range(t.dependencies)
               /\ module_graph.resolved[d] = None
               /\ make_state # "aborted")
  /\ (make_state = "running" /\ ~options.bail) ~> (make_state = "done")

\* without bail, the factory failed for a dependency after it had collected a
\* soft diagnostic, and the run has completed
C11_Witness ==
  /\ ~options.bail
  /\ make_state = "done"
  /\ \E d \in DependencyIds :
       /\ depLog[d].factory = "err"
       /\ depLog[d].soft # <<>>
       /\ depLog[d].handled

(***************************************************************************)
(* Claims about whole runs.                                                *)
(***************************************************************************)
\* the run of the scenario: the one entry dependency 1 gives module 1 (A), the
\* build of A discovers the one dependency 2, which gives module 2 (B), and the
\* build of B discovers nothing; no factory fails
ScenarioAB ==
  /\ make_state = "done"
  /\ depLog[1] = [NoDepLog EXCEPT !.created = TRUE, !.factory = "ok",
                                  !.module = Some(1), !.soft = depLog[1].soft,
                                  !.returned = "Result", !.handled = TRUE,
                                  !.add_task = TRUE]
  /\ depLog[2] = [NoDepLog EXCEPT !.created = TRUE, !.original = Some(1),
                                  !.factory = "ok", !.module = Some(2),
                                  !.soft = depLog[2].soft,
                                  !.returned = "Result", !.handled = TRUE,
                                  !.add_task = TRUE]
  /\ \A d \in DependencyIds \ {1, 2} : ~depLog[d].created

EntryConnection == [origin |-> None, dep |-> 1, target |-> 1]

ConnectionAB == [origin |-> Some(1), dep |-> 2, target |-> 2]

\* C12: the run of the scenario ends with exactly the modules A and B, the entry
\* edge and the one edge from A to B, and the entry set {A}; once the edge from
\* A to B is taken out, Clean of B reports ModuleIsCleaned and leaves exactly
\* the module A.
C12_ScenarioAB ==
  ScenarioAB =>
    /\ unlinked = {}
         => /\ module_graph.nodes = {1, 2}
            /\ module_graph.connections = {EntryConnection, ConnectionAB}
            /\ \A d \in DependencyIds :
                 module_graph.resolved[d] = IF d \in {1, 2} THEN Some(d) ELSE None
            /\ entry_module_identifiers = {1}
    /\ (unlinked = {2} /\ lastClean.module = Some(2) /\ lastClean.had_node)
         => /\ lastClean.result = "ModuleIsCleaned"
            /\ lastClean.dependents = <<>>
            /\ module_graph.nodes = {1}
            /\ module_graph.connections = {EntryConnection}
            /\ entry_module_identifiers = {1}

\* the scenario has run, the edge from A to B was taken out and Clean of B has
\* removed B
C12_Witness ==
  /\ ScenarioAB
  /\ unlinked = {2}
  /\ lastClean.module = Some(2)
  /\ lastClean.had_node
  /\ module_graph.nodes = {1}

\* the graph that the outcomes of the factory give, whatever the order of the
\* tasks: a node for each module the factory made, and each dependency resolved
\* to the module the factory made for it
ExpectedNodes ==
  {depLog[d].module[1] : d \in {x \in DependencyIds : depLog[x].factory = "ok"}}

ExpectedResolved ==
  [d \in DependencyIds |->
     IF depLog[d].factory = "ok" THEN depLog[d].module ELSE None]

EventsOf(q) == {q[i] : i \in 1..Len(q)}

\* C14: a Build task that returns a result reports as from_cache the flag that
\* use_cache returned; whenever use_cache returned, the still_valid_module hook
\* is called if and only if that flag is set; and when the cache replays a
\* result, neither the build_module hook nor the module's build nor the
\* succeed_module hook runs.
C14_FromCacheIsCacheHit ==
  lastBuild.module # None =>
    LET out == lastBuild.out
        events == EventsOf(out.events)
    IN /\ out.outcome = "Ok" => (out.from_cache # None
                                  /\ out.from_cache = out.is_cache_valid
                                  /\ out.from_cache[1] = lastBuild.cache.hit)
       /\ out.from_cache # None => out.outcome = "Ok"
       /\ "still_valid_module" \in events <=> out.is_cache_valid = Some(TRUE)
       /\ (~lastBuild.cache.fails /\ lastBuild.cache.hit)
            => /\ out.is_cache_valid = Some(TRUE)
               /\ events = {"still_valid_module"}
       /\ out.is_cache_valid = Some(FALSE)
            => out.events = <<"build_module", "build", "succeed_module">>

\* a module was built and stored, and a second Build task for it was replayed
\* from the cache
C14_Witness ==
  /\ lastBuild.module # None
  /\ lastBuild.stored
  /\ lastBuild.out.outcome = "Ok"
  /\ lastBuild.out.from_cache = Some(TRUE)
  /\ lastBuild.out.events = <<"still_valid_module">>

(***************************************************************************)
(* More claims about the completion bus.                                   *)
(***************************************************************************)
\* C15 as claimed: no wait_for call ends in a panic, whether or not the
\* processor has been dropped, and each puts its subscription into the channel.
C15_WaitForNeverFails ==
  lastWaitFor.called => (lastWaitFor.outcome = "ok" /\ lastWaitFor.sent)

\* C15 as amended: a wait_for call made while the processor is alive puts its
\* subscription into the channel and returns; a wait_for call made after the
\* processor was dropped panics and registers nothing.
C15_WaitForFailsIffDropped ==
  lastWaitFor.called =>
    /\ lastWaitFor.alive => (lastWaitFor.outcome = "ok" /\ lastWaitFor.sent)
    /\ ~lastWaitFor.alive => (lastWaitFor.outcome = "panic" /\ ~lastWaitFor.sent)

\* wait_for was called after the processor had been dropped, with an earlier
\* subscription still waiting
C15_Witness ==
  /\ lastWaitFor.called
  /\ ~lastWaitFor.alive
  /\ ~receiver_alive
  /\ subTask # <<>>

\* C16: a complete_task call for a task and a result leaves the result in the
\* finished table of the task's key, calls the callbacks pending for the key
\* from the last registered to the first, each with that result and with the
\* finished table already holding it, and leaves none pending for the key.
C16_CompleteFiresLastFirst ==
  [][nCompletes' = nCompletes + 1 =>
       \E t \in BusTasks, r \in WaitTaskResult :
         LET bk == GetBucketAndKey(t)
             stack == callbacks[bk.bucket][bk.key]
             n == Len(stack)
         IN /\ completed'[t] = Some(r)
            /\ finished'[bk.bucket][bk.key] = Some(r)
            /\ callbacks'[bk.bucket][bk.key] = <<>>
            /\ Len(fired') = Len(fired) + n
            /\ SubSeq(fired', 1, Len(fired)) = fired
            /\ \A i \in 1..n :
                 fired'[Len(fired) + i] =
                   [sub |-> stack[n + 1 - i], result |-> r,
                    by |-> "complete_task", recorded |-> Some(r)]]_vars

\* complete_task has called two callbacks pending for one key, the later
\* registered first
C16_Witness ==
  \E i \in 1..(Len(fired) - 1) :
    /\ fired[i].by = "complete_task"
    /\ fired[i + 1].by = "complete_task"
    /\ fired[i].sub > fired[i + 1].sub
    /\ subTask[fired[i].sub] = subTask[fired[i + 1].sub]
    /\ callbacks = [b \in Buckets |-> [k \in WaitTaskKey |-> <<>>]]

\* the entries of the finished table and of the pending table that a step changes
ChangedFinished ==
  {e \in Buckets \X WaitTaskKey : finished'[e[1]][e[2]] # finished[e[1]][e[2]]}

ChangedCallbacks ==
  {e \in Buckets \X WaitTaskKey : callbacks'[e[1]][e[2]] # callbacks[e[1]][e[2]]}

\* C17: a complete_task call for a task changes no entry of the finished table
\* and of the pending table but the one in the bucket of the task's stage under
\* the key of the task's entity; it calls only callbacks subscribed for exactly that task; and a
\* subscription for another stage or another entity stays where it is pending
\* and is not called.
C17_BucketsIndependent ==
  [][nCompletes' = nCompletes + 1 =>
       \E t \in BusTasks, r \in WaitTaskResult :
         /\ completed'[t] = Some(r)
         /\ \A e \in ChangedFinished \cup ChangedCallbacks :
              e = <<GetBucketAndKey(t).bucket, GetBucketAndKey(t).key>>
         /\ SubSeq(fired', 1, Len(fired)) = fired
         /\ \A i \in (Len(fired) + 1)..Len(fired') : subTask[fired'[i].sub] = t
         /\ \A s \in SubIds :
              subTask[s] # t =>
                \A b \in Buckets, k \in WaitTaskKey :
                  (\E i \in 1..Len(callbacks[b][k]) : callbacks[b][k][i] = s)
                    <=> (\E i \in 1..Len(callbacks'[b][k]) : callbacks'[b][k][i] = s)
         /\ channel' = channel
         /\ queues' = queues]_vars

\* complete_task for the Add stage of a module has called a subscription, and a
\* subscription for the Build stage of the same module is still pending
C17_Witness ==
  \E s1, s2 \in SubIds :
    /\ subTask[s1].stage = "Add"
    /\ subTask[s2].stage = "Build"
    /\ subTask[s1].id = subTask[s2].id
    /\ \E i \in FiresOf(s1) : fired[i].by = "complete_task"
    /\ FireCount(s2) = 0
    /\ IsPending(s2)

\* C18: an Add task whose module is the self module and that was created with
\* connect_origin calls no add_module_graph_module and leaves the set of nodes
\* and the entry set as they are, resolves each of its dependencies to the
\* issuer with a connection from the originating module, and reports
\* ModuleReused.
C18_SelfModuleAddsNoNode ==
  [][AddStep =>
       LET t == lastAdd'.task[1]
       IN (t.module.self_module /\ t.connect_origin)
            => /\ ~lastAdd'.inserted
               /\ module_graph'.nodes = module_graph.nodes
               /\ entry_module_identifiers' = entry_module_identifiers
               /\ lastAdd'.result = "ModuleReused"
               /\ \A d \in Range(t.dependencies) :
                    /\ module_graph'.resolved[d] = Some(t.issuer)
                    /\ [origin |-> t.original, dep |-> d, target |-> t.issuer]
                         \in module_graph'.connections]_vars

\* a self module whose identifier has no node was added for a dependency of a
\* module of the graph
C18_Witness ==
  /\ lastAdd.task # None
  /\ lastAdd.task[1].module.self_module
  /\ lastAdd.task[1].connect_origin
  /\ lastAdd.task[1].dependencies # <<>>
  /\ ~lastAdd.existed
  /\ lastAdd.task[1].module.id # lastAdd.task[1].issuer
  /\ lastAdd.result = "ModuleReused"
  /\ lastAdd.task[1].module.id \notin module_graph.nodes
  /\ \A d \in Range(lastAdd.task[1].dependencies) :
       module_graph.resolved[d] = Some(lastAdd.task[1].issuer)

\* C19: when set_resolved_module fails for a dependency of an Add task (the
\* originating module has no node, or the dependency id is not registered), the
\* task returns the error and neither ModuleAdded nor ModuleReused, the
\* creation callback is not called, and no dependency after the failing one is
\* resolved or connected by the task.
EdgeTarget(t) ==
  IF t.module.self_module /\ t.connect_origin THEN t.issuer ELSE t.module.id

\* the positions of the dependencies of t for which the edge cannot be recorded
FailingPositions(t, nodes) ==
  {i \in 1..Len(t.dependencies) :
     \/ t.dependencies[i] \notin KnownDependencies
     \/ t.original # None /\ t.original[1] \notin nodes
     \/ EdgeTarget(t) \notin nodes}

C19_EdgeFailureIsFatal ==
  [][AddStep =>
       LET t == lastAdd'.task[1]
           nodes == IF lastAdd'.inserted
                      THEN module_graph.nodes \cup {t.module.id}
                      ELSE module_graph.nodes
           failing == FailingPositions(t, nodes)
       IN (t.connect_origin /\ failing # {})
            => /\ lastAdd'.result = "Err"
               /\ ~lastAdd'.callback
               /\ \A j \in 1..Len(t.dependencies) :
                    j > Min(failing)
                      => LET d == t.dependencies[j]
                         IN /\ d \in DependencyIds
                                 => module_graph'.resolved[d] = module_graph.resolved[d]
                            /\ {c \in module_graph'.connections : c.dep = d}
                                 = {c \in module_graph.connections : c.dep = d}]_vars

\* an Add task failed on an unregistered dependency id that is followed by
\* registered ones, which are left unresolved
C19_Witness ==
  /\ lastAdd.task # None
  /\ lastAdd.result = "Err"
  /\ lastAdd.task[1].connect_origin
  /\ Len(lastAdd.task[1].dependencies) >= 2
  /\ \E i \in 1..Len(lastAdd.task[1].dependencies) :
       /\ i < Len(lastAdd.task[1].dependencies)
       /\ lastAdd.task[1].dependencies[i] = UnknownDependency
       /\ \A j \in 1..Len(lastAdd.task[1].dependencies) :
            j > i => /\ lastAdd.task[1].dependencies[j] \in DependencyIds
                     /\ module_graph.resolved[lastAdd.task[1].dependencies[j]] = None

\* C20: a try_process call on a channel that holds messages leaves the channel
\* empty; each worker queue gets, after what it held, the tasks of its own
\* stage that were in the channel, once each and in the order they were sent,
\* and nothing else; the subscriptions that were in the channel are handled in
\* the order they were sent: those for a finished task are called, in that
\* order, with the stored result, the others are pushed, in that order, on the
\* pending list of their task; the finished table is not changed.
TryProcessStep ==
  /\ channel # <<>>
  /\ nTasks' = nTasks
  /\ subTask' = subTask
  /\ nCompletes' = nCompletes

\* the ids of the tasks of a kind in the channel, in channel order
TasksSent(kind) ==
  LET IsKind(msg) == msg.type = kind
      sel == SelectSeq(channel, IsKind)
  IN [i \in 1..Len(sel) |-> sel[i].id]

SubscriptionKey(sub) ==
  <<GetBucketAndKey(subTask[sub]).bucket, GetBucketAndKey(subTask[sub]).key>>

\* the subscriptions in the channel for a key, in channel order
SubscriptionsSent(b, k) ==
  LET IsFor(msg) == msg.type = "Subscription" /\ SubscriptionKey(msg.sub) = <<b, k>>
      sel == SelectSeq(channel, IsFor)
  IN [i \in 1..Len(sel) |-> sel[i].sub]

\* the subscriptions in the channel for finished tasks, in channel order
FinishedSubscriptionsSent ==
  LET IsDone(msg) ==
        /\ msg.type = "Subscription"
        /\ finished[SubscriptionKey(msg.sub)[1]][SubscriptionKey(msg.sub)[2]] # None
      sel == SelectSeq(channel, IsDone)
  IN [i \in 1..Len(sel) |-> sel[i].sub]

C20_TryProcessDrainsInOrder ==
  [][TryProcessStep =>
       /\ channel' = <<>>
       /\ finished' = finished
       /\ \A kind \in TaskKinds : queues'[kind] = queues[kind] \o TasksSent(kind)
       /\ \A b \in Buckets, k \in WaitTaskKey :
            callbacks'[b][k] =
              IF finished[b][k] = None
                THEN callbacks[b][k] \o SubscriptionsSent(b, k)
                ELSE callbacks[b][k]
       /\ Len(fired') = Len(fired) + Len(FinishedSubscriptionsSent)
       /\ SubSeq(fired', 1, Len(fired)) = fired
       /\ \A i \in 1..Len(FinishedSubscriptionsSent) :
            LET e == fired'[Len(fired) + i]
                s == FinishedSubscriptionsSent[i]
            IN /\ e.sub = s
               /\ e.by = "try_process"
               /\ Some(e.result) =
                    finished[SubscriptionKey(s)[1]][SubscriptionKey(s)[2]]]_vars

\* the channel was drained: two tasks of one stage are on that stage's queue in
\* the order they were sent, and a subscription was called by try_process
C20_Witness ==
  /\ channel = <<>>
  /\ \E kind \in TaskKinds :
       /\ Len(queues[kind]) >= 2
       /\ \A i, j \in 1..Len(queues[kind]) : i < j => queues[kind][i] < queues[kind][j]
  /\ \E i \in 1..Len(fired) : fired[i].by = "try_process"

\* C21: no wake-up is lost.  A subscription that try_process has received and
\* whose task complete_task has been called for, before or after it was sent or
\* received, has been called once; one sent before the completion and received
\* after it was called by the try_process call that received it; and when
\* try_process keeps being called while the channel holds a message, then again
\* and again every subscription sent so far whose task is completed so far has
\* been called, so that each of them is called in the end.
WokenUp(s) ==
  /\ FireCount(s) = 1
  /\ ~InSomeTable(s)
  /\ (~sentDone[s] /\ drained[s].when = "after")
       => \A i \in FiresOf(s) : fired[i].by = "try_process"

C21_NoLostWakeUp ==
  /\ [](\A s \in SubIds :
          (drained[s].when # "no" /\ completed[subTask[s]] # None) => WokenUp(s))
  /\ []<>(\A s \in SubIds : completed[subTask[s]] # None => FireCount(s) = 1)

\* a subscription was sent before complete_task was called for its task, was
\* received after it, and has been called by try_process
C21_Witness ==
  \E s \in SubIds :
    /\ ~sentDone[s]
    /\ drained[s].when = "after"
    /\ completed[subTask[s]] # None
    /\ \E i \in FiresOf(s) : fired[i].by = "try_process"

\* C22: after an Add task created with is_entry has returned ModuleAdded or
\* ModuleReused, the identifier of its module is in the entry-module set,
\* whichever branch the task took.
C22_EntryAlwaysRecorded ==
  (/\ lastAdd.task # None
   /\ lastAdd.task[1].is_entry
   /\ lastAdd.result \in {"ModuleAdded", "ModuleReused"})
    => lastAdd.task[1].module.id \in entry_module_identifiers

=========================================================================
